---- MODULE Spec2Model ----
(***************************************************************************)
(* The todo service of src/backend: the storage accessor (database.rs)     *)
(* over one SQLite table reached through an r2d2 connection pool, and the  *)
(* axum handlers (handlers.rs) that map accessor results to HTTP           *)
(* responses.  Every request is a process; one step is one pool            *)
(* checkout or one SQL statement (SQLite runs each autocommit statement    *)
(* atomically).                                                            *)
(***************************************************************************)
EXTENDS Integers, Sequences, FiniteSets, TLC

\* ---------------------------------------------------------------- bounds
\* Number of distinct values uuid::Uuid::new_v4() can produce.
MaxIds == 2
\* Longest request string (title, description); strings over one letter.
MaxStrLen == 1
\* Largest reading of the wall clock, in ticks of 500 microseconds.
MaxClock == 2
\* Number of requests that can be in flight at once.
MaxReqs == 2
\* Connections of the pool (r2d2's max_size).
PoolSize == 3

Ids == 1..MaxIds
Clock == 0..MaxClock
Reqs == 1..MaxReqs

\* ---------------------------------------------------------------- values
\* Option<T>: None is the empty sequence, Some(x) the one-element sequence.
None == <<>>
Some(x) == <<x>>
IsSome(o) == Len(o) = 1
Unwrap(o) == o[1]
OptionOf(S) == {None} \cup {Some(x) : x \in S}

\* String: a sequence of letters; "" is the empty sequence.
StrOfLen(n) == [i \in 1..n |-> "x"]
Strings == {StrOfLen(n) : n \in 0..MaxStrLen}
is_empty(s) == Len(s) = 0

\* Option::unwrap_or_default on Option<String> (database.rs:60).
unwrap_or_default(o) == IF IsSome(o) THEN Unwrap(o) ELSE <<>>

\* ------------------------------------------------------------ timestamps
\* Three decimal digits of a number below 1000, as character codes.
Digits3(n) == <<48 + (n \div 100), 48 + ((n \div 10) % 10), 48 + (n % 10)>>

\* chrono's DateTime<Utc>::to_rfc3339 (SecondsFormat::AutoSi) of clock reading
\* t: the seconds, then no fraction, ".mmm" or ".mmmuuu" as the reading needs,
\* then the "+" that opens the offset "+00:00".  The date, hour and minute
\* before it and the rest of the offset after it are the same in every
\* timestamp of the model and are left out.  Character codes: "+" 43, "." 46,
\* "0" 48.
to_rfc3339(t) ==
    LET secs   == t \div 2000
        millis == (t \div 2) % 1000
        micros == (t % 2) * 500
        ss     == <<48 + (secs \div 10), 48 + (secs % 10)>>
        frac   == IF micros # 0 THEN <<46>> \o Digits3(millis) \o Digits3(micros)
                  ELSE IF millis # 0 THEN <<46>> \o Digits3(millis)
                  ELSE <<>>
    IN  ss \o frac \o <<43>>

\* SQLite's BINARY collation on TEXT: memcmp, the shorter string first on a
\* common prefix.
RECURSIVE TextLess(_, _)
TextLess(a, b) ==
    IF Len(b) = 0 THEN FALSE
    ELSE IF Len(a) = 0 THEN TRUE
    ELSE IF Head(a) # Head(b) THEN Head(a) < Head(b)
    ELSE TextLess(Tail(a), Tail(b))

\* ----------------------------------------------------------------- table
\* A bound parameter for the completed column (database.rs:64, 164-168).
CompletedParam(b) == IF b THEN "1" ELSE "0"

\* NUMERIC affinity of the BOOLEAN column (database.rs:42): the text "0" or
\* "1" is stored as the integer.
NumericAffinity(text) == IF text = "1" THEN 1 ELSE 0

Row(id, title, description, completedText, created_at) ==
    [id |-> id, title |-> title, description |-> description,
     completed |-> NumericAffinity(completedText), created_at |-> created_at]

StoredIds(table) == {row.id : row \in table}

\* INSERT INTO todos ... under id TEXT PRIMARY KEY (database.rs:39, 62-65):
\* the statement fails when the key is already stored.
InsertViolatesKey(table, id) == id \in StoredIds(table)

InsertRow(table, row) == table \cup {row}

\* The closure of query_map (database.rs:83-98, 115-130): a row to a Todo.
RowToTodo(row) ==
    [id |-> row.id, title |-> row.title,
     description |-> IF is_empty(row.description) THEN None
                     ELSE Some(row.description),
     completed |-> row.completed # 0,
     created_at |-> row.created_at]

\* SELECT ... WHERE id = ?1 and todos.next() (database.rs:112-135).
SelectById(table, id) ==
    IF \E row \in table : row.id = id
    THEN Some(RowToTodo(CHOOSE row \in table : row.id = id))
    ELSE None

\* ORDER BY created_at without DESC.
OrderedAsc(a, b) == ~TextLess(b.created_at, a.created_at)

\* ORDER BY created_at DESC (database.rs:79) admits a before b.
OrderedDesc(a, b) == ~TextLess(a.created_at, b.created_at)

\* SELECT ... ORDER BY created_at DESC (database.rs:78-104): every sequence
\* holding each row once, in an order the ORDER BY admits (rows of equal
\* created_at come in either order).
SelectAll(table) ==
    LET n == Cardinality(table)
    IN  {[i \in 1..n |-> RowToTodo(s[i])] :
            s \in {f \in [1..n -> table] :
                      /\ \A i, j \in 1..n : i # j => f[i] # f[j]
                      /\ \A i, j \in 1..n : i < j => OrderedDesc(f[i], f[j])}}

\* A fixed SET list: a column that is not supplied is reset to its default.
ApplyAllColumns(row, update) ==
    [row EXCEPT
       !.title = IF IsSome(update.title) THEN Unwrap(update.title) ELSE @,
       !.description = IF IsSome(update.description)
                       THEN Unwrap(update.description) ELSE <<>>,
       !.completed = IF IsSome(update.completed)
                     THEN NumericAffinity(CompletedParam(Unwrap(update.completed)))
                     ELSE 0]

\* A SET list that also stamps the row with a new created_at.
ApplyAndStamp(row, update) ==
    [row EXCEPT
       !.title = IF IsSome(update.title) THEN Unwrap(update.title) ELSE @,
       !.description = IF IsSome(update.description)
                       THEN Unwrap(update.description) ELSE @,
       !.completed = IF IsSome(update.completed)
                     THEN NumericAffinity(CompletedParam(Unwrap(update.completed)))
                     ELSE @,
       !.created_at = to_rfc3339(MaxClock)]

\* The SET list of the dynamic UPDATE (database.rs:151-169, 176): only the
\* supplied columns are assigned.
ApplyUpdate(row, update) ==
    [row EXCEPT
       !.title = IF IsSome(update.title) THEN Unwrap(update.title) ELSE @,
       !.description = IF IsSome(update.description)
                       THEN Unwrap(update.description) ELSE @,
       !.completed = IF IsSome(update.completed)
                     THEN NumericAffinity(CompletedParam(Unwrap(update.completed)))
                     ELSE @]

\* UPDATE todos SET ... WHERE id = ? (database.rs:175-180).
UpdateRows(table, id, update) ==
    {IF row.id = id THEN ApplyUpdate(row, update) ELSE row : row \in table}

\* The existence check skipped: every id is taken to be stored.
NeverNone(o) == FALSE

\* Option::is_none on get_todo's result (database.rs:146).
is_none(o) == ~IsSome(o)

\* The early return dropped: the UPDATE is built whatever is supplied.
NeverEmpty(update) == FALSE

\* updates.is_empty() (database.rs:171).
NoFields(update) ==
    ~IsSome(update.title) /\ ~IsSome(update.description) /\ ~IsSome(update.completed)

\* DELETE FROM todos without its WHERE.
DeleteEveryRow(table, id) == {}

\* DELETE FROM todos WHERE id = ?1 (database.rs:190).
DeleteRows(table, id) == {row \in table : row.id # id}
RowsAffected(table, id) == Cardinality({row \in table : row.id = id})

\* -------------------------------------------------------------- handlers
\* Result<T, E>: Ok(v), or Err (the boxed error is opaque to the handlers).
Ok(v) == [ok |-> TRUE, val |-> v]
Err == [ok |-> FALSE, val |-> None]

\* An HTTP response: the status and what its body holds (json is FALSE for a
\* response without a body).
JsonError(status, text) ==
    [status |-> status, json |-> TRUE, error |-> Some(text), message |-> None,
     todo |-> None, todos |-> None]
JsonMessage(status, text) ==
    [status |-> status, json |-> TRUE, error |-> None, message |-> Some(text),
     todo |-> None, todos |-> None]
JsonTodo(status, t) ==
    [status |-> status, json |-> TRUE, error |-> None, message |-> None,
     todo |-> Some(t), todos |-> None]
JsonTodos(status, ts) ==
    [status |-> status, json |-> TRUE, error |-> None, message |-> None,
     todo |-> None, todos |-> Some(ts)]
StatusOnly(status) ==
    [status |-> status, json |-> FALSE, error |-> None, message |-> None,
     todo |-> None, todos |-> None]
NoResponse == StatusOnly(0)

get_todos_handler(res) ==
    IF res.ok THEN JsonTodos(200, res.val) ELSE StatusOnly(500)

create_todo_handler(res) ==
    IF res.ok THEN JsonTodo(201, res.val)
    ELSE JsonError(500, "Failed to create todo")

get_todo_handler(res) ==
    IF res.ok /\ IsSome(res.val) THEN JsonTodo(200, Unwrap(res.val))
    ELSE IF res.ok THEN JsonError(404, "Todo not found")
    ELSE JsonError(500, "Failed to get todo")

update_todo_handler(res) ==
    IF res.ok /\ IsSome(res.val) THEN JsonTodo(200, Unwrap(res.val))
    ELSE IF res.ok THEN JsonError(404, "Todo not found")
    ELSE JsonError(500, "Failed to update todo")

delete_todo_handler(res) ==
    IF res.ok /\ res.val THEN JsonMessage(200, "Todo deleted successfully")
    ELSE IF res.ok THEN JsonError(404, "Todo not found")
    ELSE JsonError(500, "Failed to delete todo")

\* The route table (handlers.rs:15-18): the handler of each operation.
Handle(op, res) ==
    CASE op = "list"   -> get_todos_handler(res)
      [] op = "create" -> create_todo_handler(res)
      [] op = "get"    -> get_todo_handler(res)
      [] op = "update" -> update_todo_handler(res)
      [] op = "delete" -> delete_todo_handler(res)

\* ------------------------------------------------------------------ state
VARIABLES
    todos,     \* the rows of table todos
    pool,      \* idle connections of the pool
    pc,        \* where each request is: idle, a pool.get(), a statement, done
    req,       \* each request's operation and its inputs
    held,      \* pool connections each request holds
    stmts,     \* statements each request's accessor call has executed
    resp,      \* each request's HTTP response, once done
    issued,    \* the ids uuid::Uuid::new_v4() has produced
    born,      \* history: per id, created_at of the INSERT that stored its row
    nCreated,  \* history: create_todo calls that succeeded before any row was deleted
    deleted,   \* history: some DELETE has removed a row
    last       \* history: the create or delete call the client completed right
               \* before the request it sent last, if that is what it did

vars == <<todos, pool, pc, req, held, stmts, resp, issued, born, nCreated,
          deleted, last>>

NoId == 0
NoTime == <<>>
NoLast == [op |-> "other", id |-> NoId, todo |-> None]

Request(op, id, title, description, completed) ==
    [op |-> op, id |-> id, title |-> title, description |-> description,
     completed |-> completed]
NoRequest == Request("none", NoId, None, None, None)

Init ==
    /\ todos = {}
    /\ pool = PoolSize
    /\ pc = [r \in Reqs |-> "idle"]
    /\ req = [r \in Reqs |-> NoRequest]
    /\ held = [r \in Reqs |-> 0]
    /\ stmts = [r \in Reqs |-> 0]
    /\ resp = [r \in Reqs |-> NoResponse]
    /\ issued = {}
    /\ born = [i \in Ids |-> NoTime]
    /\ nCreated = 0
    /\ deleted = FALSE
    /\ last = NoLast

InFlight(r) == pc[r] \notin {"idle", "done"}

\* What request r's finished call was: a create that answered 201 with its
\* Todo, a delete that answered 200 or 404, or something else.
Completed(r) ==
    IF pc[r] = "done" /\ req[r].op = "create" /\ resp[r].status = 201
    THEN [op |-> "create", id |-> Unwrap(resp[r].todo).id, todo |-> resp[r].todo]
    ELSE IF pc[r] = "done" /\ req[r].op = "delete" /\ resp[r].status \in {200, 404}
    THEN [op |-> "delete", id |-> req[r].id, todo |-> None]
    ELSE NoLast

\* Request r (not in flight) arrives and its handler calls the accessor, which
\* starts with pool.get().
Arrive(r, request) ==
    /\ pc' = [pc EXCEPT ![r] = "conn"]
    /\ req' = [req EXCEPT ![r] = request]
    /\ stmts' = [stmts EXCEPT ![r] = 0]
    /\ resp' = [resp EXCEPT ![r] = NoResponse]
    /\ last' = Completed(r)
    /\ UNCHANGED <<todos, pool, held, issued, born, nCreated, deleted>>

\* GET /api/todos
ListRequest(r) ==
    /\ ~InFlight(r)
    /\ Arrive(r, Request("list", NoId, None, None, None))

\* The requests whose create_todo has not returned yet.
Creating == {q \in Reqs : InFlight(q) /\ req[q].op = "create"}

\* POST /api/todos {title, description?}; the model takes no more creates than
\* it has ids to give them.
CreateRequest(r, ids, strs) ==
    \E title \in strs, description \in OptionOf(strs) :
        /\ ~InFlight(r)
        /\ Cardinality(issued) + Cardinality(Creating) < Cardinality(ids)
        /\ Arrive(r, Request("create", NoId, Some(title), description, None))

\* GET /api/todos/:id
GetRequest(r, ids) ==
    \E id \in ids :
        /\ ~InFlight(r)
        /\ Arrive(r, Request("get", id, None, None, None))

\* PUT /api/todos/:id {title?, description?, completed?}
UpdateRequest(r, ids, strs) ==
    \E id \in ids, title \in OptionOf(strs), description \in OptionOf(strs),
       completed \in OptionOf(BOOLEAN) :
        /\ ~InFlight(r)
        /\ Arrive(r, Request("update", id, title, description, completed))

\* DELETE /api/todos/:id
DeleteRequest(r, ids) ==
    \E id \in ids :
        /\ ~InFlight(r)
        /\ Arrive(r, Request("delete", id, None, None, None))

\* The accessor returns res: its connections are dropped and the handler maps
\* res to the response.
Return(r, res) ==
    /\ pc' = [pc EXCEPT ![r] = "done"]
    /\ resp' = [resp EXCEPT ![r] = Handle(req[r].op, res)]
    /\ pool' = pool + held[r]
    /\ held' = [held EXCEPT ![r] = 0]
    /\ UNCHANGED last

\* pool.get() (database.rs:57, 77, 111, 143, 189): takes an idle connection;
\* with none idle the caller waits.
AfterConn(at, op) ==
    CASE at = "exists_conn" -> "exists"
      [] at = "reread_conn" -> "reread"
      [] at = "conn" /\ op = "create" -> "insert"
      [] at = "conn" /\ op = "list"   -> "select_all"
      [] at = "conn" /\ op = "get"    -> "select"
      [] at = "conn" /\ op = "update" -> "exists_conn"
      [] at = "conn" /\ op = "delete" -> "delete"

PoolGet(r) ==
    /\ pc[r] \in {"conn", "exists_conn", "reread_conn"}
    /\ pool > 0
    /\ pool' = pool - 1
    /\ held' = [held EXCEPT ![r] = @ + 1]
    /\ pc' = [pc EXCEPT ![r] = AfterConn(pc[r], req[r].op)]
    /\ UNCHANGED <<todos, req, stmts, resp, issued, born, nCreated, deleted, last>>

\* pool.get()? or a statement's ? returns Err (r2d2's connection timeout with
\* no idle connection, SQLITE_BUSY, an I/O error): the accessor returns the
\* error and the handler answers 500.
StorageError(r) ==
    /\ InFlight(r)
    /\ Return(r, Err)
    /\ UNCHANGED <<todos, req, stmts, issued, born, nCreated, deleted>>

\* uuid::Uuid::new_v4() (database.rs:58): an id, among ids, that it has not
\* produced before.
new_v4(ids) == ids \ issued

\* The accessor executes one more statement.
Executed(r) == stmts' = [stmts EXCEPT ![r] = @ + 1]

\* create_todo (database.rs:53-74) after its pool.get(): a fresh uuid and the
\* clock's reading, the INSERT, and the Todo built from the request.
create_todo(r, ids) ==
    /\ pc[r] = "insert"
    /\ \E id \in new_v4(ids), now \in Clock :
          LET created_at  == to_rfc3339(now)
              description == unwrap_or_default(req[r].description)
              row  == Row(id, Unwrap(req[r].title), description,
                          CompletedParam(FALSE), created_at)
              todo == [id |-> id, title |-> Unwrap(req[r].title),
                       description |-> req[r].description,
                       completed |-> FALSE, created_at |-> created_at]
          IN  /\ issued' = issued \cup {id}
              /\ IF InsertViolatesKey(todos, id)
                 THEN /\ Return(r, Err)
                      /\ UNCHANGED <<todos, stmts, born, nCreated>>
                 ELSE /\ todos' = InsertRow(todos, row)
                      /\ Executed(r)
                      /\ born' = [born EXCEPT ![id] = created_at]
                      /\ nCreated' = IF deleted THEN 0 ELSE nCreated + 1
                      /\ Return(r, Ok(todo))
    /\ UNCHANGED <<req, deleted>>

\* get_todos (database.rs:76-105) after its pool.get().
get_todos(r) ==
    /\ pc[r] = "select_all"
    /\ \E result \in SelectAll(todos) :
          Return(r, Ok(result))
    /\ Executed(r)
    /\ UNCHANGED <<todos, req, issued, born, nCreated, deleted>>

\* get_todo (database.rs:107-136), called by the handler, after its pool.get().
get_todo(r) ==
    /\ pc[r] = "select"
    /\ LET res == Ok(SelectById(todos, req[r].id))
       IN  Return(r, res)
    /\ Executed(r)
    /\ UNCHANGED <<todos, req, issued, born, nCreated, deleted>>

\* update_todo's existence check (database.rs:145-148, 171-173): the SELECT
\* of the get_todo it calls, whose connection is dropped when it returns;
\* update_todo then returns Ok(None), goes on to the re-read (no field
\* supplied), or goes on to the UPDATE.
update_todo_exists(r) ==
    /\ pc[r] = "exists"
    /\ Executed(r)
    /\ IF is_none(SelectById(todos, req[r].id))
       THEN Return(r, Ok(None))
       ELSE /\ pool' = pool + 1
            /\ held' = [held EXCEPT ![r] = @ - 1]
            /\ pc' = [pc EXCEPT ![r] = IF NoFields(req[r]) THEN "reread_conn"
                                       ELSE "update_exec"]
            /\ UNCHANGED <<resp, last>>
    /\ UNCHANGED <<todos, req, issued, born, nCreated, deleted>>

\* update_todo's UPDATE (database.rs:175-180), on the connection it took first.
update_todo_execute(r) ==
    /\ pc[r] = "update_exec"
    /\ todos' = UpdateRows(todos, req[r].id, req[r])
    /\ Executed(r)
    /\ pc' = [pc EXCEPT ![r] = "reread_conn"]
    /\ UNCHANGED <<pool, req, held, resp, issued, born, nCreated, deleted, last>>

\* update_todo's re-read (database.rs:172, 182): the SELECT of the get_todo
\* whose result it returns.
update_todo_reread(r) ==
    /\ pc[r] = "reread"
    /\ Executed(r)
    /\ LET res == Ok(SelectById(todos, req[r].id))
       IN  Return(r, res)
    /\ UNCHANGED <<todos, req, issued, born, nCreated, deleted>>

\* delete_todo (database.rs:185-192) after its pool.get().
delete_todo(r) ==
    /\ pc[r] = "delete"
    /\ LET rows_affected == RowsAffected(todos, req[r].id)
           res == Ok(rows_affected > 0)
       IN  /\ todos' = DeleteRows(todos, req[r].id)
           /\ born' = [born EXCEPT ![req[r].id] = NoTime]
           /\ deleted' = (deleted \/ rows_affected > 0)
           /\ nCreated' = IF rows_affected > 0 THEN 0 ELSE nCreated
           /\ Return(r, res)
    /\ Executed(r)
    /\ UNCHANGED <<req, issued>>

\* --------------------------------------------------------- specifications
\* One client that sends its requests one after the other.
Client == CHOOSE r \in Reqs : \A q \in Reqs : r <= q

Next ==
    \E r \in {Client} :
        \/ ListRequest(r)
        \/ CreateRequest(r, Ids, Strings)
        \/ GetRequest(r, Ids)
        \/ UpdateRequest(r, Ids, Strings)
        \/ DeleteRequest(r, Ids)
        \/ PoolGet(r)
        \/ StorageError(r)
        \/ create_todo(r, Ids)
        \/ get_todos(r)
        \/ get_todo(r)
        \/ update_todo_exists(r)
        \/ update_todo_execute(r)
        \/ update_todo_reread(r)
        \/ delete_todo(r)

Spec == Init /\ [][Next]_vars

\* Concurrent requests, one task each (tokio's worker threads), on one id and
\* the empty string.
ConcIds == {CHOOSE i \in Ids : \A j \in Ids : i <= j}
ConcStrings == {StrOfLen(0)}

NextConc ==
    \E r \in Reqs :
        \/ ListRequest(r)
        \/ CreateRequest(r, ConcIds, ConcStrings)
        \/ GetRequest(r, ConcIds)
        \/ UpdateRequest(r, ConcIds, ConcStrings)
        \/ DeleteRequest(r, ConcIds)
        \/ PoolGet(r)
        \/ StorageError(r)
        \/ create_todo(r, ConcIds)
        \/ get_todos(r)
        \/ get_todo(r)
        \/ update_todo_exists(r)
        \/ update_todo_execute(r)
        \/ update_todo_reread(r)
        \/ delete_todo(r)

SpecConc == Init /\ [][NextConc]_vars

\* ----------------------------------------------------------------- claims
Answered(r, op) == pc[r] = "done" /\ req[r].op = op
\* The call answered without a storage error.
StoreWorked(r) == resp[r].status # 500
OtherRows(table, id) == {row \in table : row.id # id}
Supplied(u) == u.title # <<>> \/ u.description # <<>> \/ u.completed # <<>>

\* What a reader of the table sees of a row: the empty description as absent,
\* completed as a boolean.
Shows(todo, row) ==
    /\ todo.id = row.id
    /\ todo.title = row.title
    /\ todo.description = (IF row.description = <<>> THEN <<>> ELSE <<row.description>>)
    /\ todo.completed = (row.completed = 1)
    /\ todo.created_at = row.created_at

\* C1: the record a create_todo returned equals, field by field, the record
\* the get_todo that follows it returns for the returned id.
C1_CreateThenGetEqual ==
    \A r \in Reqs :
        (Answered(r, "get") /\ StoreWorked(r) /\ last.op = "create"
            /\ last.id = req[r].id)
        => /\ resp[r].status = 200
           /\ resp[r].todo = last.todo

\* One step of an update_todo call in flight, on a stored or a missing id.
C2_Step(r) ==
    LET u == req[r]
        theUpdate == pc[r] = "update_exec" /\ pc'[r] = "reread_conn"
    IN  /\ OtherRows(todos', u.id) = OtherRows(todos, u.id)
        /\ StoredIds(todos') = StoredIds(todos)
        /\ ~theUpdate => todos' = todos
        /\ theUpdate =>
              /\ Supplied(u)
              /\ \A old \in todos : old.id = u.id =>
                    \E new \in todos' :
                       /\ new.id = old.id
                       /\ new.created_at = old.created_at
                       /\ new.title = IF u.title # <<>> THEN u.title[1] ELSE old.title
                       /\ new.description = IF u.description # <<>>
                                            THEN u.description[1] ELSE old.description
                       /\ new.completed = IF u.completed # <<>>
                                          THEN (IF u.completed[1] THEN 1 ELSE 0)
                                          ELSE old.completed
        /\ (pc'[r] = "done" /\ resp'[r].status = 200) =>
              /\ \E row \in todos' : row.id = u.id /\ Shows(resp'[r].todo[1], row)
              /\ \A row \in todos' : row.id = u.id =>
                    /\ u.title # <<>> => row.title = u.title[1]
                    /\ u.description # <<>> => row.description = u.description[1]
                    /\ u.completed # <<>> => row.completed = (IF u.completed[1] THEN 1 ELSE 0)
              /\ stmts'[r] = IF Supplied(u) THEN 3 ELSE 2

\* C2: an update_todo on a stored id assigns exactly the supplied fields, with
\* the supplied values, to the row of that id and to no other row; with no
\* field supplied it writes nothing and answers with the stored record.
C2_UpdateWritesExactlySupplied ==
    [][\A r \in Reqs : (InFlight(r) /\ req[r].op = "update") => C2_Step(r)]_vars

C2_Witness ==
    \E r \in Reqs :
        /\ Answered(r, "update") /\ resp[r].status = 200
        /\ req[r].title # <<>> /\ req[r].completed = <<>> /\ req[r].description = <<>>
        /\ resp[r].todo[1].completed
        /\ resp[r].todo[1].description # <<>>
        /\ Cardinality(todos) = 2

\* One step of an update_todo call in flight on an id that is not stored.
C3_Step(r) ==
    /\ todos' = todos
    /\ pc'[r] # "update_exec"
    /\ stmts'[r] <= 1
    /\ pc'[r] = "done" =>
          \/ resp'[r] = JsonError(404, "Todo not found") /\ stmts'[r] = 1
          \/ resp'[r].status = 500

\* C3: an update_todo on an id that is not stored executes its SELECT only,
\* never an UPDATE, leaves the table as it was and answers 404 "not found"
\* (500 if the store fails under it).
C3_UpdateMissingIsNotFound ==
    [][\A r \in Reqs :
          (InFlight(r) /\ req[r].op = "update" /\ req[r].id \notin StoredIds(todos))
          => C3_Step(r)]_vars

C3_Witness ==
    \E r \in Reqs :
        /\ Answered(r, "update") /\ resp[r].status = 404
        /\ Supplied(req[r])
        /\ req[r].id \notin StoredIds(todos)
        /\ todos # {}

\* The DELETE step of a delete_todo call, and the call that follows a delete.
C4_Step(r) ==
    LET id == req[r].id
    IN  /\ resp'[r].status = (IF id \in StoredIds(todos) THEN 200 ELSE 404)
        /\ id \notin StoredIds(todos')
        /\ OtherRows(todos', id) = OtherRows(todos, id)

C4_After(r) ==
    (pc[r] = "done" /\ req[r].op \in {"get", "delete"} /\ StoreWorked(r)
        /\ last.op = "delete" /\ last.id = req[r].id)
    => resp[r].status = 404 /\ resp[r].error = <<"Todo not found">>

\* C4: delete_todo answers true (200) exactly when the id was stored, false
\* (404) otherwise; it removes the row of that id and no other row; the get or
\* the delete of the same id that follows it answers 404 "not found".
C4_DeleteRemovesOnce ==
    [][\A r \in Reqs :
          /\ (pc[r] = "delete" /\ pc'[r] = "done" /\ resp'[r].status # 500)
                => C4_Step(r)
          /\ C4_After(r)']_vars

C4_Witness ==
    \E r \in Reqs :
        /\ Answered(r, "delete") /\ resp[r].status = 404
        /\ last.op = "delete" /\ last.id = req[r].id
        /\ todos # {}

\* The clock readings that to_rfc3339 renders as text.
ReadingsOf(text) == {t \in Clock : to_rfc3339(t) = text}

\* C5: while no row has been deleted, get_todos answers with as many records
\* as create_todo calls have succeeded, one per created id, a later created_at
\* before an earlier one; on the empty table it answers 200 with no record.
C5_ListsAllNewestFirst ==
    \A r \in Reqs :
        (Answered(r, "list") /\ StoreWorked(r)) =>
            LET ts == resp[r].todos[1]
            IN  /\ resp[r].status = 200 /\ resp[r].todos # <<>>
                /\ todos = {} => ts = <<>>
                /\ ~deleted =>
                      /\ Len(ts) = nCreated
                      /\ {ts[i].id : i \in 1..Len(ts)} = {i \in Ids : born[i] # NoTime}
                      /\ \A i, j \in 1..Len(ts) : ts[i].id = ts[j].id => i = j
                      /\ \A i, j \in 1..Len(ts) : i < j =>
                            \A a \in ReadingsOf(ts[i].created_at),
                               b \in ReadingsOf(ts[j].created_at) : a >= b

C5_Witness ==
    \E r \in Reqs :
        /\ Answered(r, "list") /\ resp[r].status = 200 /\ ~deleted
        /\ nCreated = 2
        /\ Len(resp[r].todos[1]) = 2
        /\ resp[r].todos[1][1].created_at # resp[r].todos[1][2].created_at

\* C6: no two stored rows have the same id, and every stored row has the
\* created_at of the INSERT that stored the row of its id.
C6_IdUniqueCreatedAtFixed ==
    /\ \A a, b \in todos : a.id = b.id => a = b
    /\ \A row \in todos : row.id \in Ids /\ born[row.id] = row.created_at

C6_Witness ==
    /\ Cardinality(todos) = 2
    /\ \E r \in Reqs :
          /\ Answered(r, "update") /\ resp[r].status = 200
          /\ req[r].title # <<>> /\ req[r].description # <<>> /\ req[r].completed = <<TRUE>>
    /\ \E a, b \in todos : a.created_at # b.created_at

\* C7: every 404 or 500 response carries a JSON body with an error string.
C7_ErrorsCarryErrorField ==
    \A r \in Reqs :
        (pc[r] = "done" /\ resp[r].status \in {404, 500})
        => resp[r].json /\ resp[r].error # <<>>

\* Request r is at a pool.get().
Waiting(r) == pc[r] \in {"conn", "exists_conn", "reread_conn"}

\* C8: a request holds at most one pool connection, never waits for one while
\* it holds one, and so the requests never exhaust the pool with each of them
\* waiting for another connection.
C8_OneConnectionPerRequest ==
    /\ \A r \in Reqs : held[r] <= 1
    /\ \A r \in Reqs : Waiting(r) => held[r] = 0
    /\ ~(pool = 0 /\ \A r \in Reqs : Waiting(r))

\* C9: an update_todo that supplies a field and answers with a record answers
\* with a record that has the supplied values (the empty description as
\* absent).
C9_UpdateAnswersSupplied ==
    \A r \in Reqs :
        (Answered(r, "update") /\ resp[r].status = 200 /\ Supplied(req[r])) =>
            LET u == req[r]
                t == resp[r].todo[1]
            IN  /\ u.title # <<>> => t.title = u.title[1]
                /\ u.description # <<>> =>
                      t.description = (IF u.description[1] = <<>> THEN <<>>
                                       ELSE u.description)
                /\ u.completed # <<>> => t.completed = u.completed[1]

\* C10 as stated: a call that answers without a storage error has executed
\* one or two statements.
C10_OneOrTwoStatements ==
    \A r \in Reqs : (pc[r] = "done" /\ StoreWorked(r)) => stmts[r] \in {1, 2}

\* C10 as amended: a call executes at most three statements; one that answers
\* without a storage error has executed one (create, list, get, delete, update
\* of an id that is not stored), two (update of a stored id with no field
\* supplied) or three (update of a stored id with a field supplied).
C10_OneToThreeStatements ==
    \A r \in Reqs :
        /\ stmts[r] <= 3
        /\ (pc[r] = "done" /\ StoreWorked(r)) =>
              stmts[r] = IF req[r].op # "update" \/ resp[r].status = 404 THEN 1
                         ELSE IF Supplied(req[r]) THEN 3
                         ELSE 2

C10_Witness ==
    \E r \in Reqs :
        /\ Answered(r, "update") /\ resp[r].status = 200
        /\ Supplied(req[r]) /\ stmts[r] = 3

====
